---- MODULE Spec2Model ----
(***************************************************************************)
(* riemann-mysql: a replication check agent.  The model covers main()'s    *)
(* configuration of interval/delay, the main loop, mysql_get_handle and    *)
(* mysql_gather of src/riemann-mysql.c.                                    *)
(*                                                                         *)
(* C strings are sequences of one-character strings.  Doubles are fixed    *)
(* point numbers counted in units of 1/FP.                                 *)
(***************************************************************************)
EXTENDS Integers, Sequences, FiniteSets, TLC

VARIABLES
    conf,       \* the configuration file: a sequence of [key, val] lines
    pc,         \* position of main()
    interval,   \* int interval
    delay,      \* double delay (in 1/FP)
    now,        \* time(NULL), counted from the instant the loop last woke up
    start_ts,   \* time_t start_ts
    hdl,        \* struct mysql_handler: [status, db]
    gh_depth,   \* mysql_get_handle: nesting of the running call (0 = called from main)
    gh_ret,     \* value mysql_get_handle returned in this cycle, or NULL
    pings,      \* mysql_ping calls made by the running mysql_get_handle call
    inits,      \* mysql_init calls made by the running mysql_get_handle call
    connects,   \* mysql_real_connect calls made by the running mysql_get_handle call
    gin,        \* the server's answer mysql_gather worked on, until main goes on
    gpath,      \* the path mysql_gather took in this cycle, or "none"
    gres,       \* mysql_gather in this cycle: times the result was freed, and
                \* whether the row was read after the result was freed
    ev,         \* riemann_event_t *ev
    msg,        \* riemann_message_t *msg: the events of the message it points to
    e,          \* int e: result of riemann_client_connect in this cycle, or NULL
    cycle,      \* number of the running cycle (kept modulo CycleTags)
    gathered,   \* mysql_gather was called in this cycle
    rconnects,  \* riemann_client_connect calls in this cycle
    sent,       \* messages handed to riemann_client_send_message_oneshot in this cycle
    elapsed,    \* seconds spent in the blocking calls of this cycle
    slept,      \* seconds slept since the last cycle ended
    sres,       \* result of riemann_client_send_message_oneshot in this cycle, or NULL
    prev_failed, \* the last cycle that came to the delivery did not deliver its event
    connected,  \* outcome of mysql_real_connect in this cycle, or NULL
    heap,       \* riemann objects: whether *ev is allocated, and the count of
                \* messages and events still allocated that main has no
                \* pointer to any more (counted up to MaxLost)
    conns       \* MYSQL objects made by mysql_init and not yet closed

vars == <<conf, pc, interval, delay, now, start_ts, hdl, gh_depth,
          gh_ret, pings, inits, connects, gin, gpath, gres, ev, msg, e,
          cycle, gathered, rconnects, sent, elapsed, slept, sres,
          prev_failed, connected, heap, conns>>

(***************************************************************************)
(* Bounds of the model                                                     *)
(***************************************************************************)
MaxConfLines == 1       \* lines in the configuration file
MaxDelta == 1           \* a blocking call takes no time or MaxDelta seconds
CycleTags == 2          \* cycle numbers are kept modulo CycleTags
MaxLost == 1            \* lost riemann objects are counted up to MaxLost

(***************************************************************************)
(* Program constants                                                       *)
(***************************************************************************)
FP == 10                \* resolution of the fixed point doubles
DEFAULT_INTERVAL == 30
DEFAULT_DELAY == 2 * FP
MYSQL_SLAVE_IO == 10
MYSQL_SLAVE_SQL == 11
MYSQL_SECONDS_BEHIND == 32
MYSQL_MIN_FIELDS == 33
MAXLEN == 1024

S_DOWN == 0
S_UP == 1

S_OK == 0
S_WARNING == 1
S_CRITICAL == 2
S_UNKNOWN == 3

\* A pointer, or a value that may be unset, is a sequence of length at most
\* one: NULL, or Ptr(v)
NULL == <<>>
Ptr(v) == <<v>>
Deref(p) == p[1]

Min(a, b) == IF a < b THEN a ELSE b

(***************************************************************************)
(* libc string functions                                                   *)
(***************************************************************************)
Upper == <<"A","B","C","D","E","F","G","H","I","J","K","L","M",
           "N","O","P","Q","R","S","T","U","V","W","X","Y","Z">>
Lower == <<"a","b","c","d","e","f","g","h","i","j","k","l","m",
           "n","o","p","q","r","s","t","u","v","w","x","y","z">>

\* tolower(3)
ToLower(c) ==
    IF \E i \in 1..26 : Upper[i] = c
    THEN Lower[CHOOSE i \in 1..26 : Upper[i] = c]
    ELSE c

\* strcasecmp(a, b) == 0
StrCaseEq(a, b) ==
    /\ Len(a) = Len(b)
    /\ \A i \in 1..Len(a) : ToLower(a[i]) = ToLower(b[i])

\* strncpy(dst, src, n) into a zeroed buffer: the first n characters of src
Strncpy(src, n) == SubSeq(src, 1, Min(Len(src), n))

\* snprintf(dst, size, ...): at most size - 1 characters of the formatted text
Snprintf(size, text) == SubSeq(text, 1, Min(Len(text), size - 1))

Digits == <<"0","1","2","3","4","5","6","7","8","9">>
IsDigit(c) == \E i \in 1..10 : Digits[i] = c
DigitVal(c) == (CHOOSE i \in 1..10 : Digits[i] = c) - 1
IsSpace(c) == c \in {" ", "\t", "\n"}

\* value of the run of digits of s that starts at position i
RECURSIVE DigitRun(_, _, _)
DigitRun(s, i, acc) ==
    IF i <= Len(s) /\ IsDigit(s[i])
    THEN DigitRun(s, i + 1, 10 * acc + DigitVal(s[i]))
    ELSE acc

\* position after the run of digits of s that starts at position i
RECURSIVE DigitEnd(_, _)
DigitEnd(s, i) ==
    IF i <= Len(s) /\ IsDigit(s[i]) THEN DigitEnd(s, i + 1) ELSE i

\* position of the first character of s, from i on, that is not white space
RECURSIVE SkipSpace(_, _)
SkipSpace(s, i) ==
    IF i <= Len(s) /\ IsSpace(s[i]) THEN SkipSpace(s, i + 1) ELSE i

\* atoi(3) / atoll(3): optional white space, optional sign, leading digits
Atoi(s) ==
    LET i == SkipSpace(s, 1)
        neg == i <= Len(s) /\ s[i] = "-"
        j == IF i <= Len(s) /\ s[i] \in {"-", "+"} THEN i + 1 ELSE i
        v == DigitRun(s, j, 0)
    IN IF neg THEN 0 - v ELSE v

\* atof(3), in 1/FP: as atoi, then an optional fraction of which the first
\* digit is kept
Atof(s) ==
    LET i == SkipSpace(s, 1)
        neg == i <= Len(s) /\ s[i] = "-"
        j == IF i <= Len(s) /\ s[i] \in {"-", "+"} THEN i + 1 ELSE i
        k == DigitEnd(s, j)
        whole == DigitRun(s, j, 0)
        frac == IF k + 1 <= Len(s) /\ s[k] = "." /\ IsDigit(s[k + 1])
                THEN DigitVal(s[k + 1]) ELSE 0
        v == whole * FP + frac
    IN IF neg THEN 0 - v ELSE v

\* conversion of a double to int: truncation toward zero
DoubleToInt(d) == IF d >= 0 THEN d \div FP ELSE 0 - ((0 - d) \div FP)

\* conversion of an int to double
IntToDouble(i) == i * FP

(***************************************************************************)
(* Configuration                                                           *)
(***************************************************************************)
ConfKeys == {"interval", "delay"}
ConfVals == { <<"2">>, <<"0", ".", "5">> }
ConfLines == [key : ConfKeys, val : ConfVals]
Configs == UNION { [1..n -> ConfLines] : n \in 0..MaxConfLines }

\* one directive of the configuration file applied to interval and delay
ApplyDirective(c, line) ==
    IF line.key = "interval"
    THEN [c EXCEPT !.interval = Atoi(line.val)]
    ELSE IF line.key = "delay"
    THEN [c EXCEPT !.interval = DoubleToInt(Atof(line.val))]
    ELSE c

\* the while loop over the lines of the configuration file
RECURSIVE ParseConfig(_, _)
ParseConfig(lines, c) ==
    IF lines = <<>> THEN c
    ELSE ParseConfig(Tail(lines), ApplyDirective(c, Head(lines)))

(***************************************************************************)
(* mysql_get_handle                                                        *)
(***************************************************************************)
PingFailed_StillUp(h) == [h EXCEPT !.db = NULL]

PingFailed_DbKept(h) == [h EXCEPT !.status = S_DOWN]

\* the handle after a failed mysql_ping: marked down, closed, db cleared
PingFailed(h) == [h EXCEPT !.status = S_DOWN, !.db = NULL]

\* the handle after hdl->db = mysql_init(NULL)
Inited(h, init_ok) == [h EXCEPT !.db = IF init_ok THEN Ptr("conn") ELSE NULL]

ConnectFailed_DbKept(h) == h

\* the handle after a failed mysql_real_connect: closed, db cleared
ConnectFailed(h) == [h EXCEPT !.db = NULL]

Connected_StatusKept(h) == h

\* the open MYSQL objects after mysql_init
MysqlInit(n, init_ok) == IF init_ok THEN n + 1 ELSE n

\* the open MYSQL objects after mysql_close
MysqlClose(n) == n - 1

\* the handle after a successful mysql_real_connect
Connected(h) == [h EXCEPT !.status = S_UP]

(***************************************************************************)
(* mysql_gather                                                            *)
(***************************************************************************)
states == <<"ok", "warning", "critical", "unknown">>

Running == <<"r","u","n","n","i","n","g">>
Stopped == <<"s","t","o","p","p","e","d">>
Yes == <<"y","e","s">>
FieldsMissing == <<"f","i","e","l","d","s"," ","m","i","s","s","i","n","g">>

\* the text "slave io: %s, slave sql: %s" formatted with a and b
DescriptionFormat(a, b) ==
    <<"s","l","a","v","e"," ","i","o",":"," ">> \o a \o
    <<","," ","s","l","a","v","e"," ","s","q","l",":"," ">> \o b

\* io / sql: the field is not NULL and is "yes" in any case
IsYes(field) == field # NULL /\ StrCaseEq(Deref(field), Yes)

EvalState_SqlLast(prev, io, sql) ==
    IF io /\ sql THEN S_OK
    ELSE LET s1 == IF ~io THEN S_CRITICAL ELSE prev
         IN IF ~sql THEN S_WARNING ELSE s1

EvalState_WarningOnly(prev, io, sql) ==
    IF io /\ sql THEN S_OK
    ELSE IF ~sql THEN S_WARNING ELSE prev

\* the state after the if on io and sql, prev being the state before it; of
\* the two ifs of the else branch the second one, on io, is the one that
\* decides when both apply
EvalState(prev, io, sql) ==
    IF io /\ sql THEN S_OK
    ELSE LET s1 == IF ~sql THEN S_WARNING ELSE prev
         IN IF ~io THEN S_CRITICAL ELSE s1

\* values a field of a status row can have
FieldVals == { NULL, Ptr(<<"Y","e","s">>), Ptr(<<"N","o">>),
               Ptr(<<"y","e","s","!">>) }
BehindVals == { NULL, Ptr(<<"7">>) }
ErrTexts == { <<"g","o","n","e">>, <<"d","e","n","i","e","d">> }
\* values an uninitialised double can have
GarbageMetrics == { 0, 3 * FP }
\* values an uninitialised enum state can have: one of the enum, one not
GarbageStates == { S_UNKNOWN, S_UNKNOWN + 1 }

\* a status row of n fields: a function on 0 .. n-1
Row(n, a, b, c) ==
    [i \in 0..(n - 1) |->
        IF i = MYSQL_SLAVE_IO THEN a
        ELSE IF i = MYSQL_SLAVE_SQL THEN b
        ELSE IF i = MYSQL_SECONDS_BEHIND THEN c
        ELSE Ptr(<<"x">>)]

NumFields(row) == Cardinality(DOMAIN row)

ValidRows == { Row(MYSQL_MIN_FIELDS, a, b, c) :
                 a \in FieldVals, b \in FieldVals, c \in BehindVals }
ShortRows == { Row(MYSQL_MIN_FIELDS - 1, a, Ptr(<<"Y","e","s">>), NULL) :
                 a \in {Ptr(<<"Y","e","s">>), Ptr(<<"N","o">>)} }

\* what the server answers: whether the query runs, whether a result is
\* stored, the row fetched (or NULL), and the text of mysql_error
GatherInputs ==
    { [query_ok |-> FALSE, res |-> NULL, row |-> NULL, err |-> t] : t \in ErrTexts }
    \cup
    { [query_ok |-> TRUE, res |-> NULL, row |-> NULL, err |-> t] : t \in ErrTexts }
    \cup
    { [query_ok |-> TRUE, res |-> Ptr("res"), row |-> NULL, err |-> t] :
         t \in ErrTexts }
    \cup
    { [query_ok |-> TRUE, res |-> Ptr("res"), row |-> Ptr(r), err |-> <<>>] :
         r \in ValidRows \cup ShortRows }

\* the answers the main loop is run with: one of each kind
LoopInputs ==
    { in \in GatherInputs :
        /\ in.err \in {<<>>, <<"g","o","n","e">>}
        /\ in.row # NULL =>
              /\ Deref(in.row)[MYSQL_SLAVE_IO] = Ptr(<<"N","o">>)
              /\ Deref(in.row)[MYSQL_SLAVE_SQL] = Ptr(<<"Y","e","s">>)
              /\ NumFields(Deref(in.row)) >= MYSQL_MIN_FIELDS =>
                    Deref(in.row)[MYSQL_SECONDS_BEHIND] # NULL }

\* what the undefined behaviour of mysql_gather yields: the values of the
\* uninitialised has_metric and metric, the values read from the row of a
\* freed result, and whether freeing the result a second time aborts
NoUB == [state |-> S_OK, has_metric |-> FALSE, metric |-> 0, io |-> NULL,
         sql |-> NULL, behind |-> NULL, abort |-> FALSE]
UBOutcomes(in) ==
    IF in.row = NULL
    THEN { [NoUB EXCEPT !.has_metric = TRUE, !.metric = m] : m \in GarbageMetrics }
         \cup { NoUB }
    ELSE IF NumFields(Deref(in.row)) < MYSQL_MIN_FIELDS
    THEN { [NoUB EXCEPT !.io = a, !.sql = b, !.behind = c, !.abort = x] :
             a \in {NULL, Ptr(<<"Y","e","s">>)},
             b \in {NULL, Ptr(<<"Y","e","s">>)},
             c \in BehindVals, x \in BOOLEAN }
    ELSE { [NoUB EXCEPT !.state = s, !.metric = m] :
             s \in GarbageStates, m \in GarbageMetrics }

\* mysql_gather up to the label out: state, description, has_metric, metric,
\* the number of times the result was freed and whether the row was read
\* after the result was freed
GatherOut(in, ub) ==
    LET desclen == MAXLEN - 1
    IN
    IF ~in.query_ok
    THEN [state |-> S_UNKNOWN, description |-> Strncpy(in.err, desclen),
          has_metric |-> ub.has_metric, metric |-> ub.metric,
          frees |-> 0, stale_read |-> FALSE]
    ELSE IF in.res = NULL
    THEN [state |-> S_CRITICAL, description |-> Strncpy(in.err, desclen),
          has_metric |-> ub.has_metric, metric |-> ub.metric,
          frees |-> 0, stale_read |-> FALSE]
    ELSE IF in.row = NULL
    THEN [state |-> S_UNKNOWN, description |-> Strncpy(in.err, desclen),
          has_metric |-> ub.has_metric, metric |-> ub.metric,
          frees |-> 1, stale_read |-> FALSE]
    ELSE
      LET row == Deref(in.row)
          short == NumFields(row) < MYSQL_MIN_FIELDS
          \* the short branch sets state and description, frees the result
          \* and falls through: the row is read from freed memory
          state0 == IF short THEN S_UNKNOWN ELSE ub.state
          f_io == IF short THEN ub.io ELSE row[MYSQL_SLAVE_IO]
          f_sql == IF short THEN ub.sql ELSE row[MYSQL_SLAVE_SQL]
          f_behind == IF short THEN ub.behind ELSE row[MYSQL_SECONDS_BEHIND]
          io == IsYes(f_io)
          sql == IsYes(f_sql)
          has_metric == f_behind # NULL
      IN [state |-> EvalState(state0, io, sql),
          description |-> Snprintf(desclen,
                             DescriptionFormat(IF io THEN Running ELSE Stopped,
                                               IF sql THEN Running ELSE Stopped)),
          has_metric |-> has_metric,
          metric |-> IF has_metric THEN IntToDouble(Atoi(Deref(f_behind)))
                     ELSE ub.metric,
          frees |-> IF short THEN 2 ELSE 1,
          stale_read |-> short]

\* mysql_gather has not run: nothing freed, nothing read
NoResult == [frees |-> 0, stale_read |-> FALSE]

\* states[state]: the name of the state, or what lies past the array
StateName(state) ==
    IF state + 1 \in DOMAIN states THEN states[state + 1] ELSE "(indeterminate)"

\* riemann_event_create at the label out, and the metric set when has_metric
EventCreate(out, cyc) ==
    [state |-> StateName(out.state),
     description |-> out.description,
     has_metric |-> out.has_metric,
     metric |-> IF out.has_metric THEN Ptr(out.metric) ELSE NULL,
     ttl |-> NULL,
     cyc |-> cyc]

(***************************************************************************)
(* main                                                                    *)
(***************************************************************************)
ProbeFailed_Never(ret) == FALSE

\* if (mysql_get_handle(&hdl) == -1)
ProbeFailed(ret) == ret = Ptr(0 - 1)

\* the seconds slept by a cycle skipped on probe failure
SkipSleep(iv) == iv

\* the TTL of the event
Ttl(iv, dl) == IntToDouble(iv) + dl

ShouldSend_Always(res) == TRUE

ShouldSend_UnlessFailedBefore(res) == res = Ptr(0) /\ ~prev_failed

\* if (e != 0) ... else append and send
ShouldSend(res) == res = Ptr(0)

\* no riemann event allocated, no message or event lost
NoneLost == [ev_live |-> FALSE, lost |-> 0]

\* msg = riemann_message_new(): the message msg pointed to, when still
\* allocated, is lost
MessageNew(h, old) ==
    [h EXCEPT !.lost = IF old # NULL THEN Min(@ + 1, MaxLost) ELSE @]

\* ev = mysql_gather(): the event ev pointed to, when still allocated, is lost
EventNew(h) ==
    [h EXCEPT !.lost = IF h.ev_live THEN Min(@ + 1, MaxLost) ELSE @,
              !.ev_live = TRUE]

\* riemann_client_send_message_oneshot frees the message and its events
MessageFreed(h) == [h EXCEPT !.ev_live = FALSE]

\* the cycle did not deliver: riemann_client_connect or
\* riemann_client_send_message_oneshot did not return 0
DeliveryFailed(conn, snd) == conn # Ptr(0) \/ snd # Ptr(0)

WaitFor_Full(iv, start, end) == iv

\* waitfor = interval - (end_ts - start_ts)
WaitFor(iv, start, end) == iv - (end - start)

Init ==
    /\ conf \in Configs
    /\ pc = "startup"
    /\ interval = DEFAULT_INTERVAL
    /\ delay = DEFAULT_DELAY
    /\ now = 0
    /\ start_ts = 0
    /\ hdl = [status |-> S_DOWN, db |-> NULL]
    /\ gh_depth = 0
    /\ gh_ret = NULL
    /\ pings = 0
    /\ inits = 0
    /\ connects = 0
    /\ gin = NULL
    /\ gpath = "none"
    /\ gres = NoResult
    /\ ev = NULL
    /\ msg = NULL
    /\ e = NULL
    /\ cycle = 0
    /\ gathered = FALSE
    /\ rconnects = 0
    /\ sent = <<>>
    /\ elapsed = 0
    /\ slept = 0
    /\ prev_failed = FALSE
    /\ sres = NULL
    /\ connected = NULL
    /\ heap = NoneLost
    /\ conns = 0

\* main() up to the loop: the configuration is parsed, interval is checked and
\* the riemann client is allocated
Startup ==
    /\ pc = "startup"
    /\ LET c == ParseConfig(conf, [interval |-> interval, delay |-> delay])
       IN /\ interval' = c.interval
          /\ delay' = c.delay
          /\ \E client_ok \in BOOLEAN :
                pc' = IF c.interval <= 0 \/ ~client_ok
                      THEN "exited" ELSE "cycle_start"
    /\ UNCHANGED <<conf, conns, heap, connected, prev_failed, sres, now, start_ts, hdl, gh_depth, gh_ret, pings,
                   inits, connects, gin, gpath, gres, ev, msg, e, cycle, gathered,
                   rconnects, sent, elapsed, slept>>

\* a blocking call that takes d seconds
Spend(d) ==
    /\ now' = now + d
    /\ elapsed' = elapsed + d

\* top of the loop: start_ts is read and the message allocated
CycleStart ==
    /\ pc = "cycle_start"
    /\ start_ts' = now
    /\ \E msg_ok \in BOOLEAN :
          IF msg_ok
          THEN msg' = Ptr(<<>>) /\ pc' = "get_handle"
          ELSE msg' = NULL /\ pc' = "exited"
    /\ cycle' = (cycle + 1) % CycleTags
    /\ gh_depth' = 0
    /\ gh_ret' = NULL
    /\ pings' = 0
    /\ inits' = 0
    /\ connects' = 0
    /\ gin' = NULL
    /\ gpath' = "none"
    /\ gres' = NoResult
    /\ e' = NULL
    /\ gathered' = FALSE
    /\ rconnects' = 0
    /\ sent' = <<>>
    /\ elapsed' = 0
    /\ slept' = 0
    /\ sres' = NULL
    /\ connected' = NULL
    /\ heap' = MessageNew(heap, msg)
    /\ UNCHANGED <<conf, conns, prev_failed, interval, delay, now, hdl, ev>>

\* mysql_get_handle on a handle that is up: ping; on failure the handle is
\* torn down and mysql_get_handle calls itself
GetHandlePing ==
    /\ pc = "get_handle"
    /\ hdl.status = S_UP
    /\ pings' = pings + 1
    /\ \E d \in {0, MaxDelta} : Spend(d)
    /\ \E ping_ok \in BOOLEAN :
          IF ping_ok
          THEN /\ hdl' = hdl
               /\ conns' = conns
               /\ gh_ret' = Ptr(0)
               /\ gh_depth' = 0
               /\ pc' = "probe_ret"
          ELSE /\ hdl' = PingFailed(hdl)
               /\ conns' = MysqlClose(conns)
               /\ gh_ret' = gh_ret
               /\ gh_depth' = gh_depth + 1
               /\ pc' = "get_handle"
    /\ UNCHANGED <<conf, heap, connected, prev_failed, sres, interval, delay, start_ts, inits, connects,
                   gin, gpath, gres, ev, msg, e, cycle, gathered, rconnects, sent, slept>>

\* mysql_get_handle on a handle that is not up: mysql_init and
\* mysql_real_connect
GetHandleConnect ==
    /\ pc = "get_handle"
    /\ hdl.status # S_UP
    /\ inits' = inits + 1
    /\ \E init_ok \in BOOLEAN, conn_ok \in BOOLEAN, d \in {0, MaxDelta} :
          IF ~init_ok
          THEN /\ hdl' = Inited(hdl, FALSE)
               /\ conns' = MysqlInit(conns, FALSE)
               /\ connects' = connects
               /\ connected' = connected
               /\ gh_ret' = Ptr(0 - 1)
               /\ UNCHANGED <<now, elapsed>>
          ELSE /\ connects' = connects + 1
               /\ connected' = Ptr(conn_ok)
               /\ Spend(d)
               /\ IF conn_ok
                  THEN /\ hdl' = Connected(Inited(hdl, TRUE))
                       /\ conns' = MysqlInit(conns, TRUE)
                       /\ gh_ret' = Ptr(0)
                  ELSE /\ hdl' = ConnectFailed(Inited(hdl, TRUE))
                       /\ conns' = MysqlClose(MysqlInit(conns, TRUE))
                       /\ gh_ret' = Ptr(0 - 1)
    /\ gh_depth' = 0
    /\ pc' = "probe_ret"
    /\ UNCHANGED <<conf, heap, prev_failed, sres, interval, delay, start_ts, pings, gin, gpath,
                   gres, ev, msg, e, cycle, gathered, rconnects, sent, slept>>

\* the probe failed: sleep(interval) and continue.  The loop uses the clock
\* only through differences within a cycle, so time is counted anew from the
\* instant the sleep ends.
SkipCycle ==
    /\ pc = "probe_ret"
    /\ ProbeFailed(gh_ret)
    /\ slept' = SkipSleep(interval)
    /\ now' = 0
    /\ pc' = "cycle_start"
    /\ UNCHANGED <<conf, conns, heap, connected, prev_failed, sres, interval, delay, start_ts, hdl, gh_depth,
                   gh_ret, pings, inits, connects, gin, gpath, gres, ev, msg, e,
                   cycle, gathered, rconnects, sent, elapsed>>

\* the path mysql_gather takes on an answer of the server
GatherPath(in) ==
    IF ~in.query_ok THEN "query"
    ELSE IF in.res = NULL THEN "result"
    ELSE IF in.row = NULL THEN "row"
    ELSE IF NumFields(Deref(in.row)) < MYSQL_MIN_FIELDS THEN "fields"
    ELSE "valid"

\* ev = mysql_gather(&hdl), the server answering with one of inputs
mysql_gather(inputs) ==
    /\ pc = "probe_ret"
    /\ ~ProbeFailed(gh_ret)
    /\ gathered' = TRUE
    /\ \E d \in {0, MaxDelta} : Spend(d)
    /\ \E in \in inputs : \E ub \in UBOutcomes(in), ev_ok \in BOOLEAN :
          LET out == GatherOut(in, ub)
          IN /\ gin' = Ptr(in)
             /\ gpath' = GatherPath(in)
             /\ gres' = [frees |-> out.frees, stale_read |-> out.stale_read]
             /\ IF ub.abort
                THEN ev' = ev /\ heap' = heap /\ pc' = "aborted"
                ELSE IF ~ev_ok
                THEN ev' = ev /\ heap' = heap /\ pc' = "exited"
                ELSE /\ ev' = Ptr(EventCreate(out, cycle))
                     /\ heap' = EventNew(heap)
                     /\ pc' = "gathered"
    /\ UNCHANGED <<conf, conns, connected, prev_failed, sres, interval, delay, start_ts, hdl, gh_depth,
                   gh_ret, pings, inits, connects, msg, e, cycle, rconnects,
                   sent, slept>>

\* mysql_gather in the main loop
Gather == mysql_gather(LoopInputs)

\* the TTL is set and riemann_client_connect called
Connect ==
    /\ pc = "gathered"
    /\ ev' = Ptr([Deref(ev) EXCEPT !.ttl = Ptr(Ttl(interval, delay))])
    /\ gin' = NULL
    /\ rconnects' = rconnects + 1
    /\ \E d \in {0, MaxDelta} : Spend(d)
    /\ \E res \in {0, 0 - 1} :
          /\ e' = Ptr(res)
          /\ pc' = IF ShouldSend(Ptr(res)) THEN "send" ELSE "end_cycle"
    /\ UNCHANGED <<conf, conns, heap, connected, prev_failed, sres, interval, delay, start_ts, hdl, gh_depth,
                   gh_ret, pings, inits, connects, gpath, gres, msg, cycle, gathered,
                   sent, slept>>

\* riemann_message_append_events and riemann_client_send_message_oneshot,
\* which sends the message and frees it whether the send worked or not
Send ==
    /\ pc = "send"
    /\ sent' = Append(sent, Append(Deref(msg), Deref(ev)))
    /\ msg' = NULL
    /\ heap' = MessageFreed(heap)
    /\ \E res \in {0, 0 - 1} : sres' = Ptr(res)
    /\ \E d \in {0, MaxDelta} : Spend(d)
    /\ pc' = "end_cycle"
    /\ UNCHANGED <<conf, conns, connected, prev_failed, interval, delay, start_ts, hdl, gh_depth,
                   gh_ret, pings, inits, connects, gin, gpath, gres, ev, e, cycle,
                   gathered, rconnects, slept>>

\* end of the cycle: end_ts is read and the rest of the interval slept; time
\* is counted anew from the instant the loop goes on
EndCycle ==
    /\ pc = "end_cycle"
    /\ LET end_ts == now
           waitfor == WaitFor(interval, start_ts, end_ts)
       IN slept' = IF waitfor > 0 THEN waitfor ELSE 0
    /\ prev_failed' = DeliveryFailed(e, sres)
    /\ now' = 0
    /\ pc' = "cycle_start"
    /\ UNCHANGED <<conf, conns, heap, connected, sres, interval, delay, start_ts, hdl, gh_depth, gh_ret,
                   pings, inits, connects, gin, gpath, gres, ev, msg, e, cycle,
                   gathered, rconnects, sent, elapsed>>

Next ==
    \/ Startup
    \/ CycleStart
    \/ GetHandlePing
    \/ GetHandleConnect
    \/ SkipCycle
    \/ Gather
    \/ Connect
    \/ Send
    \/ EndCycle

Spec == Init /\ [][Next]_vars

(***************************************************************************)
(* mysql_gather on every answer of GatherInputs: the program has started   *)
(* with the default configuration and mysql_get_handle has connected in    *)
(* the first cycle.                                                        *)
(***************************************************************************)
InitGather ==
    /\ conf = <<>>
    /\ pc = "probe_ret"
    /\ interval = DEFAULT_INTERVAL
    /\ delay = DEFAULT_DELAY
    /\ now \in 0..MaxDelta
    /\ start_ts = 0
    /\ hdl = [status |-> S_UP, db |-> Ptr("conn")]
    /\ gh_depth = 0
    /\ gh_ret = Ptr(0)
    /\ pings = 0
    /\ inits = 1
    /\ connects = 1
    /\ gin = NULL
    /\ gpath = "none"
    /\ gres = NoResult
    /\ ev = NULL
    /\ msg = Ptr(<<>>)
    /\ e = NULL
    /\ cycle = 1
    /\ gathered = FALSE
    /\ rconnects = 0
    /\ sent = <<>>
    /\ elapsed = now
    /\ slept = 0
    /\ prev_failed = FALSE
    /\ sres = NULL
    /\ connected = Ptr(TRUE)
    /\ heap = NoneLost
    /\ conns = 1

GatherAll == mysql_gather(GatherInputs)

SpecGather == InitGather /\ [][GatherAll]_vars

(***************************************************************************)
(* Properties                                                              *)
(***************************************************************************)
TheEvent == Deref(ev)
TheAnswer == Deref(gin)

\* every spelling of "yes"
YesSpellings == { <<a, b, c>> : a \in {"y","Y"}, b \in {"e","E"}, c \in {"s","S"} }

RunningRunning == 
    <<"s","l","a","v","e"," ","i","o",":"," ","r","u","n","n","i","n","g",",">> \o
    <<" ","s","l","a","v","e"," ","s","q","l",":"," ","r","u","n","n","i","n","g">>
RunningStopped == 
    <<"s","l","a","v","e"," ","i","o",":"," ","r","u","n","n","i","n","g",",">> \o
    <<" ","s","l","a","v","e"," ","s","q","l",":"," ","s","t","o","p","p","e","d">>
StoppedRunning == 
    <<"s","l","a","v","e"," ","i","o",":"," ","s","t","o","p","p","e","d",",">> \o
    <<" ","s","l","a","v","e"," ","s","q","l",":"," ","r","u","n","n","i","n","g">>
StoppedStopped == 
    <<"s","l","a","v","e"," ","i","o",":"," ","s","t","o","p","p","e","d",",">> \o
    <<" ","s","l","a","v","e"," ","s","q","l",":"," ","s","t","o","p","p","e","d">>

\* C1: for a valid status row (33 fields or more, query and fetch succeeded)
\* the event's state is ok when io and sql, warning when io and not sql,
\* critical when not io (whatever sql is), where io / sql say that field 10 /
\* field 11 is not NULL and spells "yes" in any case; and the description is
\* "slave io: X, slave sql: Y" with running for a true flag, stopped otherwise.
C1_ValidRowState ==
    (pc = "gathered" /\ gpath = "valid") =>
        LET row == Deref(TheAnswer.row)
            io == row[10] # NULL /\ Deref(row[10]) \in YesSpellings
            sql == row[11] # NULL /\ Deref(row[11]) \in YesSpellings
        IN /\ NumFields(row) >= 33
           /\ TheEvent.state = CASE io /\ sql -> "ok"
                                 [] io /\ ~sql -> "warning"
                                 [] ~io /\ sql -> "critical"
                                 [] ~io /\ ~sql -> "critical"
           /\ TheEvent.description = CASE io /\ sql -> RunningRunning
                                       [] io /\ ~sql -> RunningStopped
                                       [] ~io /\ sql -> StoppedRunning
                                       [] ~io /\ ~sql -> StoppedStopped

\* a valid row with both threads stopped has been gathered as critical
C1_Witness ==
    /\ pc = "gathered"
    /\ gpath = "valid"
    /\ Deref(TheAnswer.row)[10] = Ptr(<<"N","o">>)
    /\ Deref(TheAnswer.row)[11] = NULL
    /\ TheEvent.state = "critical"
    /\ TheEvent.description = StoppedStopped

\* C2: when the query fails, when no result can be stored and when no row is
\* returned, the event's state is unknown and its description is the text of
\* mysql_error.
C2_FetchFailuresUnknown ==
    (pc = "gathered" /\ gpath \in {"query", "result", "row"}) =>
        /\ TheEvent.state = "unknown"
        /\ TheEvent.description = TheAnswer.err

\* C3: when the row has fewer than 33 fields, the fields of the row are not
\* evaluated, and the event has state unknown and description "fields missing".
C3_ShortRowUnknown ==
    (pc = "gathered" /\ gpath = "fields") =>
        /\ ~gres.stale_read
        /\ TheEvent.state = "unknown"
        /\ TheEvent.description = 
              <<"f","i","e","l","d","s"," ","m","i","s","s","i","n","g">>

\* the value the last line of the configuration with the key gives, or NULL
RECURSIVE LastVal(_, _)
LastVal(lines, key) ==
    IF lines = <<>> THEN NULL
    ELSE IF lines[Len(lines)].key = key THEN Ptr(lines[Len(lines)].val)
    ELSE LastVal(SubSeq(lines, 1, Len(lines) - 1), key)

\* the interval the configuration asks for, in seconds
ConfiguredInterval ==
    IF LastVal(conf, "interval") = NULL THEN 30
    ELSE Atoi(Deref(LastVal(conf, "interval")))

\* the delay the configuration asks for, in 1/FP seconds
ConfiguredDelay ==
    IF LastVal(conf, "delay") = NULL THEN 2 * FP
    ELSE Atof(Deref(LastVal(conf, "delay")))

\* C4: whatever the configuration gives for interval and delay, the TTL of the
\* event is the configured interval plus the configured delay, and the loop
\* is paced by the configured interval.
C4_TtlIsIntervalPlusDelay ==
    (pc \in {"send", "end_cycle"}) =>
        /\ TheEvent.ttl = Ptr(ConfiguredInterval * FP + ConfiguredDelay)
        /\ interval = ConfiguredInterval

\* C5 as claimed: after a cycle in which the query of mysql_gather failed, the
\* handle is down and its connection closed when the next cycle starts.
C5_QueryFailureMarksDown ==
    (pc = "cycle_start" /\ gpath = "query") =>
        /\ hdl.status = S_DOWN
        /\ hdl.db = NULL

\* C5, amended: a failed ping marks the handle down and clears its connection
\* before the connect attempt of the same call; a failed query of mysql_gather
\* does not: the handle is still up, with its connection, when the next cycle
\* starts.
C5_OnlyPingMarksDown ==
    /\ (pc = "get_handle" /\ pings = 1) =>
          /\ hdl.status = S_DOWN
          /\ hdl.db = NULL
    /\ (gpath = "query") =>
          /\ hdl.status = S_UP
          /\ hdl.db # NULL

\* a cycle whose query failed has ended with the handle still up
C5_Witness ==
    /\ pc = "cycle_start"
    /\ gpath = "query"
    /\ hdl.status = S_UP
    /\ hdl.db # NULL

\* C6: in a cycle in which mysql_get_handle returns -1 nothing is gathered,
\* the collector is not connected to, nothing is sent, and the loop sleeps
\* the configured interval before the next cycle.
C6_ProbeFailureSkipsCycle ==
    (gh_ret = Ptr(0 - 1)) =>
        /\ ~gathered
        /\ rconnects = 0
        /\ sent = <<>>
        /\ pc \in {"probe_ret", "cycle_start"}
        /\ pc = "cycle_start" => slept = ConfiguredInterval

\* C7: a call of mysql_get_handle makes at most one ping and at most one
\* connect attempt and nests at most once; after a failed ping the handle is
\* down and closed and a fresh connect attempt follows; the call returns
\* without a connect attempt only after a successful ping, and returns -1,
\* with the handle down, after a failed connect attempt.
C7_GetHandleBounded ==
    /\ pings <= 1 /\ inits <= 1 /\ connects <= 1 /\ gh_depth <= 1
    /\ (gh_depth = 1) =>
          /\ pc = "get_handle"
          /\ pings = 1 /\ inits = 0
          /\ hdl.status = S_DOWN /\ hdl.db = NULL
    /\ (pc = "probe_ret" /\ inits = 0) =>
          /\ pings = 1
          /\ gh_ret = Ptr(0)
          /\ hdl.status = S_UP
    /\ (pc = "probe_ret" /\ gh_ret = Ptr(0 - 1)) =>
          /\ inits = 1
          /\ hdl.status = S_DOWN /\ hdl.db = NULL

\* a call has returned after a failed ping and one connect attempt
C7_Witness ==
    /\ pc = "probe_ret"
    /\ pings = 1
    /\ connects = 1
    /\ gh_ret = Ptr(0 - 1)

\* C8: a cycle makes at most one collector connect attempt and at most one
\* send; it sends only after its connect succeeded; and the message sent
\* holds one event, the one built in this cycle.
C8_OneDeliveryAttempt ==
    /\ rconnects <= 1
    /\ Len(sent) <= 1
    /\ (e # Ptr(0)) => sent = <<>>
    /\ (sent # <<>>) =>
          /\ rconnects = 1
          /\ gathered
          /\ Len(sent[1]) = 1
          /\ sent[1][1].cyc = cycle
          /\ sent[1][1] = TheEvent

\* a cycle has connected and sent its event
C8_Witness ==
    /\ pc = "end_cycle"
    /\ e = Ptr(0)
    /\ Len(sent) = 1

\* C9: no outcome of a MySQL or collector call ends the loop: the process
\* does not stop in a cycle that passed the probe.
C9_NoFailureEndsLoop == pc # "aborted"

\* C10: after a cycle that passed the probe the loop sleeps interval minus
\* the seconds the cycle took when that is positive, and not at all otherwise,
\* and the next cycle starts.
C10_SleepRemainder ==
    /\ (pc = "cycle_start" /\ gh_ret = Ptr(0)) =>
          slept = IF interval - elapsed > 0 THEN interval - elapsed ELSE 0
    /\ (gh_ret = Ptr(0) /\ pc \notin {"exited", "aborted"}) =>
          pc \in {"probe_ret", "gathered", "send", "end_cycle", "cycle_start"}

\* a cycle took at least the interval and the next one starts without a sleep
C10_Witness ==
    /\ pc = "cycle_start"
    /\ gh_ret = Ptr(0)
    /\ elapsed >= interval
    /\ slept = 0

\* C11: the event carries a metric exactly when the row is valid and its
\* field 32 is not NULL: it has none when the query fails, when no result is
\* stored, when no row is returned and when the row has fewer than 33 fields;
\* and a valid row whose field 32 is NULL gives ok, warning or critical
\* without a metric.
C11_MetricIffBehind ==
    (pc = "gathered") =>
        /\ TheEvent.has_metric <=>
              (gpath = "valid" /\ Deref(TheAnswer.row)[32] # NULL)
        /\ (TheEvent.metric # NULL) <=> TheEvent.has_metric
        /\ (gpath = "valid" /\ Deref(TheAnswer.row)[32] = NULL) =>
              TheEvent.state \in {"ok", "warning", "critical"}

\* C12: mysql_gather is invoked only in a cycle whose call of mysql_get_handle
\* has returned 0, and when it is invoked the handle is up with a connection
\* that the same cycle has verified, by a successful ping or by a successful
\* connect: the status of an earlier cycle alone never leads to a query.
C12_GatherAfterProbe ==
    /\ gathered =>
          /\ gh_ret = Ptr(0)
          /\ hdl.status = S_UP
          /\ hdl.db # NULL
    /\ (pc = "probe_ret" /\ ~ProbeFailed(gh_ret)) =>
          /\ gh_ret = Ptr(0)
          /\ hdl.status = S_UP
          /\ hdl.db # NULL
          /\ \/ pings = 1 /\ inits = 0
             \/ connects = 1
    /\ (pc = "probe_ret" /\ gh_ret # Ptr(0)) => ~ENABLED Gather

\* a handle left up by an earlier cycle has been pinged and then queried
C12_Witness ==
    /\ pc = "gathered"
    /\ gathered
    /\ pings = 1
    /\ inits = 0
    /\ gh_ret = Ptr(0)

\* C13: in a cycle that follows one whose collector connect or send failed
\* and that has gathered an event, riemann_client_connect is called anew, once
\* and before any send, and the event is sent when that connect succeeds: the
\* earlier failure does not keep a later cycle from connecting and sending.
C13_FreshConnectAfterFailure ==
    prev_failed =>
        /\ (pc = "gathered") => (rconnects = 0 /\ ENABLED Connect)
        /\ (pc = "send") => (rconnects = 1 /\ e = Ptr(0) /\ ENABLED Send)
        /\ (sent # <<>>) => (rconnects = 1 /\ e = Ptr(0))
        /\ (pc = "end_cycle") =>
              /\ rconnects = 1
              /\ e = Ptr(0) => Len(sent) = 1

\* the cycle after a failed delivery has connected and sent its event
C13_Witness ==
    /\ prev_failed
    /\ pc = "end_cycle"
    /\ rconnects = 1
    /\ Len(sent) = 1
    /\ sres = Ptr(0)

\* C14: on every path of mysql_gather on which mysql_store_result gave a
\* result (no row, a short row, a valid row) the result is freed once, not
\* less and not more, when the function returns, and the row is not read
\* after the result is freed.
C14_ResultFreedOnce ==
    (pc = "gathered" /\ gpath \in {"row", "fields", "valid"}) =>
        /\ gres.frees = 1
        /\ ~gres.stale_read

\* C15: when mysql_real_connect succeeds, after a failed ping of a handle
\* that was up or on a handle that was down, mysql_get_handle returns 0 with
\* the handle up and connected, and the cycle is not skipped: mysql_gather is
\* called in it, and the collector connect is attempted once mysql_gather
\* has returned its event.
C15_RecoveryInSameCycle ==
    (connected = Ptr(TRUE)) =>
        /\ gh_ret = Ptr(0)
        /\ hdl.status = S_UP
        /\ hdl.db # NULL
        /\ (pc = "probe_ret") => (ENABLED Gather /\ ~ENABLED SkipCycle)
        /\ (pc # "probe_ret") => gathered
        /\ (pc \in {"send", "end_cycle", "cycle_start"}) => rconnects = 1

\* a cycle has found the handle up, failed the ping, reconnected, gathered
\* and attempted the delivery
C15_Witness ==
    /\ pc = "end_cycle"
    /\ pings = 1
    /\ connected = Ptr(TRUE)
    /\ hdl.status = S_UP
    /\ gathered
    /\ rconnects = 1

\* the riemann messages and events of earlier cycles that are still allocated
LiveFromEarlier ==
    (IF msg # NULL THEN 1 ELSE 0) + (IF heap.ev_live THEN 1 ELSE 0)
        + heap.lost

\* C16: when a cycle starts no message and no event of an earlier cycle is
\* still allocated: each was handed to riemann_client_send_message_oneshot or
\* freed, also in a cycle skipped on probe failure and in a cycle whose
\* collector connect failed.
C16_NothingLiveAtCycleStart ==
    (pc = "cycle_start") => LiveFromEarlier = 0

\* C17: whenever mysql_get_handle has returned, it returned 0 exactly when
\* the handle is up; the handle is up exactly when db is a connection that
\* is open; a handle that is down has db = NULL; and the open connections
\* are the one db points to and no other, so none is held by a handle that
\* is down and none is closed twice.
C17_HandleConsistent ==
    /\ hdl.status \in {S_DOWN, S_UP}
    /\ (pc = "probe_ret") => ((gh_ret = Ptr(0)) <=> (hdl.status = S_UP))
    /\ (gh_ret # NULL) => ((gh_ret = Ptr(0)) <=> (hdl.status = S_UP))
    /\ (hdl.status = S_UP) <=> (hdl.db # NULL)
    /\ (hdl.status = S_DOWN) => (hdl.db = NULL /\ conns = 0)
    /\ conns = IF hdl.db # NULL THEN 1 ELSE 0

\* a call has found the handle up, closed its connection after the failed
\* ping, and closed the new one after the failed connect
C17_Witness ==
    /\ pc = "probe_ret"
    /\ pings = 1
    /\ connected = Ptr(FALSE)
    /\ gh_ret = Ptr(0 - 1)
    /\ hdl.status = S_DOWN
    /\ hdl.db = NULL
    /\ conns = 0

\* C18: on every path of mysql_gather that creates the event, state has been
\* assigned before the label out, so the state name of the event is one of
\* "ok", "warning", "critical", "unknown" whatever the variable held before.
C18_StateAlwaysAssigned ==
    (pc = "gathered") =>
        /\ gpath \in {"query", "result", "row", "fields", "valid"}
        /\ TheEvent.state \in {"ok", "warning", "critical", "unknown"}

\* a valid row with only the io thread stopped: the last if alone assigns
\* the state
C18_Witness ==
    /\ pc = "gathered"
    /\ gpath = "valid"
    /\ Deref(TheAnswer.row)[10] = Ptr(<<"N","o">>)
    /\ Deref(TheAnswer.row)[11] = Ptr(<<"Y","e","s">>)
    /\ TheEvent.state = "critical"
====
